---- MODULE Spec2Model ----
(***************************************************************************)
(* The sync backend: board access control, collaborator management,       *)
(* listing and search (BoardCRDServices,                                   *)
(* src/services/boardServices/cRDServices.ts) over the Board collection,   *)
(* and registration and login (UserAuthServices, firebaseLoginService)     *)
(* over the User collection.                                               *)
(*                                                                         *)
(* A request is served in the steps its service makes between two waits.   *)
(* A service with one store call and no wait after it (createBoardService, *)
(* getBoardService, the listing, the search) is one step.                  *)
(* deleteBoardService, addCollaboratorService, deleteCollaboratorService   *)
(* and userRegisterService read the store in one step and write it in a    *)
(* second; userLoginService reads in one step and answers after            *)
(* bcrypt.compare in a second; firebaseLoginService reads in one step and  *)
(* creates the user, or saves the username it filled in, in a second;      *)
(* userUpdateService reads in one step, compares the old password in a     *)
(* second and saves in a third.  On the routes GET /userProfile and        *)
(* PUT /userProfile the middleware (validateToken,                         *)
(* validateLocalUserUpdate) runs when the request arrives, a step of its   *)
(* own: it refuses the request or lets it wait for the read of the User    *)
(* collection.                                                             *)
(* Between its steps a request waits in a                                  *)
(* slot of `inflight`, where the steps of another request may come.  A     *)
(* request that fails with no wait after its read is answered in the step  *)
(* of the read.  The outcome of a board request is left in `resp` and that *)
(* of a user request in `reply`, and Respond or AuthRespond sends it.      *)
(*                                                                         *)
(* The specifications differ in the clients that send requests and in what *)
(* they send.  Spec has one client, which sends a board request after the  *)
(* one before it was answered; its boards are created by one user, with    *)
(* lists of viewers.  ListSpec has one client too, and boards of both      *)
(* users with initial lists of either permission, to which one more entry  *)
(* is added and removed.  ShareSpec has one client that creates, deletes   *)
(* and lists the boards of both users.  RaceSpec has two clients whose     *)
(* addCollaborator, deleteCollaborator and deleteBoard requests overlap,   *)
(* ConcSpec two whose createBoard and deleteBoard requests do, AuthSpec    *)
(* two whose registrations and logins do, and ProfileSpec two whose        *)
(* profile updates and local logins do.                                    *)
(* SessionSpec follows one client's token cookie through login, logout and *)
(* the token-protected routes while the clock advances.                    *)
(* Board and user ids are well-formed ObjectId strings, and every user id  *)
(* named in a board request has a User record.                             *)
(***************************************************************************)
EXTENDS Integers, Sequences, FiniteSets, TLC

\* ---- bounds of the model ----
MaxBoards == 2      \* board ids the store hands out
MaxCollab == 2      \* collaborator entries stored over all boards
MaxList == 3        \* the same where an add is followed by its removal (ListSpec)
MaxUsers == 2       \* records in the User collection
TokenLifetime == 2  \* ticks of the clock a token is valid for (one day)
MaxTime == 3        \* ticks the clock makes

\* ---- status codes ----
OK == 200
CREATED == 201
BAD_REQUEST == 400
UNAUTHORIZED == 401
FORBIDDEN == 403
NOT_FOUND == 404
CONFLICT == 409
INTERNAL_SERVER_ERROR == 500

\* the status of a successful POST and DELETE /board/:id/collaborator, as the
\* routes document it; the controllers that send it are not among the sources
CollaboratorAdded == CREATED
CollaboratorRemoved == OK

\* ---- value domains ----
RegisteredUsers == {"u1", "u2"}   \* ids with a record in the User collection
UserIds == RegisteredUsers        \* well-formed ids a request can name as collaborator
Permissions == {"view", "edit"}
Securities == {"public", "private"}
Names == {<<"a", "B">>}             \* a board name is its sequence of characters
Patterns == {<<"b">>, <<"A", "b">>, <<"c">>, <<".">>, <<"(">>}   \* search texts
BoardIds == 1..MaxBoards
NoBoard == [absent |-> TRUE]
NoUser == "none"
ICollaborator == [user : UserIds, permission : Permissions]

\* ---- value domains of the User collection and of authentication ----
Emails == {"e1", "e2"}
Passwords == {"p1", "p2"}
Usernames == {"n1"}
FirebaseUids == {"f1", "f2"}
SignInProviders == {"google.com", "github.com", "facebook.com"}
NewUsernames == {"n1", "n2"}
Absent == "absent"
JWT_SECRET == "sync"
NoEmail == "none"                  \* decoded.email is undefined
NoName == "none"                   \* decoded.name, or username, is undefined
EmptyName == ""                    \* decoded.name, or username, is the empty string
NoUid == "none"                    \* the record has no firebaseUid
NoPassword == <<>>                 \* the record has no password
NoToken == [none |-> TRUE]
\* what verifyIdToken decodes a Firebase ID token to, and a token it rejects
DecodedIdTokens ==
  [uid : FirebaseUids, email : {"e1", NoEmail},
   sign_in_provider : SignInProviders, name : {NoName}]
InvalidIdToken == [invalid |-> TRUE]
\* the tokens of one Google account whose display name is empty or set
NamedIdTokens ==
  [uid : {"f1"}, email : {"e1"}, sign_in_provider : {"google.com"},
   name : {EmptyName, "n1", "n2"}]

Slots == {"r1", "r2"}              \* two requests may be in flight at a time
Free == [free |-> TRUE]

VARIABLES boards, nextId, resp, undo, inflight, users, reply, now, cookie, kept
vars == <<boards, nextId, resp, undo, inflight, users, reply, now, cookie, kept>>

\* ---- helpers over sequences ----
RECURSIVE SeqsUpTo(_, _)
SeqsUpTo(S, n) ==
  IF n = 0 THEN {<<>>}
  ELSE LET shorter == SeqsUpTo(S, n - 1)
       IN shorter \cup {Append(s, x) : s \in {t \in shorter : Len(t) = n - 1}, x \in S}

\* Array.prototype.findIndex with the predicate "collab.user equals uid"; 0 stands for -1
RECURSIVE findIndexFrom(_, _, _)
findIndexFrom(collaborators, uid, i) ==
  IF i > Len(collaborators) THEN 0
  ELSE IF collaborators[i].user = uid THEN i
  ELSE findIndexFrom(collaborators, uid, i + 1)

findIndex(collaborators, uid) == findIndexFrom(collaborators, uid, 1)

\* the collaborator lists a createBoard request can carry: none (the empty list),
\* one entry or two
InitialLists ==
  {<<>>} \cup {<<c>> : c \in ICollaborator} \cup {<<c, d>> : c, d \in ICollaborator}

\* variant: the position handed to splice is one too small (position 0 wraps to
\* the last entry, as splice(-1, 1) does)
splice_OffByOne(collaborators, index) ==
  LET at == IF index = 1 THEN Len(collaborators) ELSE index - 1
  IN [i \in 1..(Len(collaborators) - 1) |->
        IF i < at THEN collaborators[i] ELSE collaborators[i + 1]]

\* Array.prototype.splice(index, 1)
splice(collaborators, index) ==
  [i \in 1..(Len(collaborators) - 1) |->
     IF i < index THEN collaborators[i] ELSE collaborators[i + 1]]

\* variant: Array.prototype.unshift, the entry goes to the front
push_Unshift(collaborators, entry) == <<entry>> \o collaborators

\* Array.prototype.push
push(collaborators, entry) == Append(collaborators, entry)

\* ---- the Board collection ----
Exists(bs, b) == b \in BoardIds /\ bs[b] # NoBoard
Stored(bs) == {b \in BoardIds : bs[b] # NoBoard}

\* Board.findById: the document, or null
findById(bs, b) == IF Exists(bs, b) THEN bs[b] ELSE NoBoard

\* the duplicate-key error 11000 of Board.create: BoardSchema declares no unique
\* index on (createdBy, name), or on any field, so the store raises none
DuplicateKey(bs, owner, name) == FALSE

\* collaborator entries stored in the boards with ids 1..n (for the MaxCollab guard)
RECURSIVE SumLen(_, _)
SumLen(bs, n) ==
  IF n = 0 THEN 0
  ELSE (IF bs[n] = NoBoard THEN 0 ELSE Len(bs[n].collaborators)) + SumLen(bs, n - 1)

TotalCollab(bs) == SumLen(bs, MaxBoards)

\* ---- BoardCRDServices ----
\* variant: a collaborator holding "edit" passes the ownership check too
checkIfowner_OrEditor(board, currentUserId) ==
  \/ board.createdBy = currentUserId
  \/ \E i \in 1..Len(board.collaborators) :
       board.collaborators[i] = [user |-> currentUserId, permission |-> "edit"]

\* variant: on a public board every user passes the ownership check
checkIfowner_OrPublic(board, currentUserId) ==
  board.createdBy = currentUserId \/ board.security = "public"

\* variant: the comparison is negated
checkIfowner_Negated(board, currentUserId) == board.createdBy # currentUserId

\* checkIfowner: board.createdBy.toString() === currentUserId.toString()
checkIfowner(board, currentUserId) == board.createdBy = currentUserId

\* variant: collab.user === targetUserId, an ObjectId compared with a string
collaboratorExists_StrictEq(board, targetUserId) ==
  \E i \in 1..Len(board.collaborators) :
    <<"ObjectId", board.collaborators[i].user>> = <<"string", targetUserId>>

\* collaborators.some(collab => collab.user.toString() === targetUserId.toString())
\* on a board read with findById (user is an ObjectId)
collaboratorExists(board, targetUserId) ==
  \E i \in 1..Len(board.collaborators) : board.collaborators[i].user = targetUserId

\* createBoardService: result of the call on collection bs, where id is the _id
\* the store assigns; its catch answers a duplicate-key error with 400
createBoardService(bs, id, owner, name, security, collaborators) ==
  IF DuplicateKey(bs, owner, name)
  THEN [status |-> BAD_REQUEST, boards |-> bs]
  ELSE [status |-> CREATED,
        boards |-> [bs EXCEPT ![id] = [name |-> name,
                                       createdBy |-> owner,
                                       collaborators |-> collaborators,
                                       security |-> security]]]

\* variant: the null check is missing, userBoard.createdBy of null throws
deleteBoardService_NoNullCheck(bs, boardId, userId) ==
  LET userBoard == findById(bs, boardId)
  IN IF userBoard = NoBoard THEN [status |-> INTERNAL_SERVER_ERROR, boards |-> bs]
     ELSE IF userBoard.createdBy # userId THEN [status |-> FORBIDDEN, boards |-> bs]
     ELSE [status |-> OK, boards |-> [bs EXCEPT ![boardId] = NoBoard]]

\* variant: the owner's call answers 200 without Board.deleteOne
deleteBoardService_NoDelete(bs, boardId, userId) ==
  LET userBoard == findById(bs, boardId)
  IN IF userBoard = NoBoard THEN [status |-> NOT_FOUND, boards |-> bs]
     ELSE IF userBoard.createdBy # userId THEN [status |-> FORBIDDEN, boards |-> bs]
     ELSE [status |-> OK, boards |-> bs]

\* deleteBoardService
deleteBoardService(bs, boardId, userId) ==
  LET userBoard == findById(bs, boardId)
  IN IF userBoard = NoBoard THEN [status |-> NOT_FOUND, boards |-> bs]
     ELSE IF userBoard.createdBy # userId THEN [status |-> FORBIDDEN, boards |-> bs]
     ELSE [status |-> OK, boards |-> [bs EXCEPT ![boardId] = NoBoard]]

\* variant: a target equal to createdBy is rejected with 400
addCollaboratorService_RejectOwner(bs, boardId, currentUserId, targetUserId, permission) ==
  LET board == findById(bs, boardId)
  IN IF board = NoBoard THEN [status |-> NOT_FOUND, boards |-> bs]
     ELSE IF ~checkIfowner(board, currentUserId)
       THEN [status |-> FORBIDDEN, boards |-> bs]
     ELSE IF collaboratorExists(board, targetUserId)
       THEN [status |-> BAD_REQUEST, boards |-> bs]
     ELSE IF targetUserId = board.createdBy
       THEN [status |-> BAD_REQUEST, boards |-> bs]
     ELSE [status |-> CollaboratorAdded,
           boards |-> [bs EXCEPT ![boardId].collaborators =
                         push(@, [user |-> targetUserId, permission |-> permission])]]

\* variant: the entry is pushed and saved before the duplicate check answers 400
addCollaboratorService_SaveBeforeCheck(bs, boardId, currentUserId, targetUserId, permission) ==
  LET board == findById(bs, boardId)
      saved == [bs EXCEPT ![boardId].collaborators =
                  push(@, [user |-> targetUserId, permission |-> permission])]
  IN IF board = NoBoard THEN [status |-> NOT_FOUND, boards |-> bs]
     ELSE IF ~checkIfowner(board, currentUserId)
       THEN [status |-> FORBIDDEN, boards |-> bs]
     ELSE IF collaboratorExists(board, targetUserId)
       THEN [status |-> BAD_REQUEST, boards |-> saved]
     ELSE [status |-> CollaboratorAdded, boards |-> saved]

\* addCollaboratorService
addCollaboratorService(bs, boardId, currentUserId, targetUserId, permission) ==
  LET board == findById(bs, boardId)
  IN IF board = NoBoard THEN [status |-> NOT_FOUND, boards |-> bs]
     ELSE IF ~checkIfowner(board, currentUserId)
       THEN [status |-> FORBIDDEN, boards |-> bs]
     ELSE IF collaboratorExists(board, targetUserId)
       THEN [status |-> BAD_REQUEST, boards |-> bs]
     ELSE [status |-> CollaboratorAdded,
           boards |-> [bs EXCEPT ![boardId].collaborators =
                         push(@, [user |-> targetUserId, permission |-> permission])]]

\* variant: the index === -1 check is missing, splice(-1, 1) drops the last entry
deleteCollaboratorService_NoIndexCheck(bs, boardId, currentUserId, targetUserId) ==
  LET board == findById(bs, boardId)
  IN IF board = NoBoard THEN [status |-> NOT_FOUND, boards |-> bs]
     ELSE IF ~checkIfowner(board, currentUserId)
       THEN [status |-> FORBIDDEN, boards |-> bs]
     ELSE LET index == findIndex(board.collaborators, targetUserId)
              at == IF index = 0 THEN Len(board.collaborators) ELSE index
          IN [status |-> CollaboratorRemoved,
              boards |-> IF at = 0 THEN bs
                         ELSE [bs EXCEPT ![boardId].collaborators = splice(@, at)]]

\* variant: the save writes the schema default of security back with the list
deleteCollaboratorService_ResetsSecurity(bs, boardId, currentUserId, targetUserId) ==
  LET board == findById(bs, boardId)
  IN IF board = NoBoard THEN [status |-> NOT_FOUND, boards |-> bs]
     ELSE IF ~checkIfowner(board, currentUserId)
       THEN [status |-> FORBIDDEN, boards |-> bs]
     ELSE LET index == findIndex(board.collaborators, targetUserId)
          IN IF index = 0 THEN [status |-> NOT_FOUND, boards |-> bs]
             ELSE [status |-> CollaboratorRemoved,
                   boards |-> [bs EXCEPT ![boardId].collaborators = splice(@, index),
                                         ![boardId].security = "private"]]

\* deleteCollaboratorService
deleteCollaboratorService(bs, boardId, currentUserId, targetUserId) ==
  LET board == findById(bs, boardId)
  IN IF board = NoBoard THEN [status |-> NOT_FOUND, boards |-> bs]
     ELSE IF ~checkIfowner(board, currentUserId)
       THEN [status |-> FORBIDDEN, boards |-> bs]
     ELSE LET index == findIndex(board.collaborators, targetUserId)
          IN IF index = 0 THEN [status |-> NOT_FOUND, boards |-> bs]
             ELSE [status |-> CollaboratorRemoved,
                   boards |-> [bs EXCEPT ![boardId].collaborators = splice(@, index)]]

\* ---- getBoardService ----
\* populate(): a referenced id becomes the User document, or null when no User has
\* it (no such id is among UserIds)
NullDoc == [null |-> TRUE]
populate(uid) == IF uid \in RegisteredUsers THEN [_id |-> uid] ELSE NullDoc

\* toString() of an id is its hex string; toString() of a populated document is the
\* text of the whole document, which is the text of no id
IdToString(uid) == <<"id", uid>>
DocToString(doc) == <<"document", doc._id>>

\* selBoard.collaborators.some(collab => collab.user.toString() === userId.toString())
\* on the populated board: "throw" when a populated user is null (TypeError)
RECURSIVE someIsCollaborator(_, _, _)
someIsCollaborator(collaborators, userId, i) ==
  IF i > Len(collaborators) THEN "false"
  ELSE LET user == populate(collaborators[i].user)
       IN IF user = NullDoc THEN "throw"
          ELSE IF DocToString(user) = IdToString(userId) THEN "true"
          ELSE someIsCollaborator(collaborators, userId, i + 1)

\* variant: the public shortcut is missing, every board is read as a private one
getBoardService_NoPublic(bs, boardId, userId) ==
  LET selBoard == findById(bs, boardId)
  IN IF selBoard = NoBoard THEN NOT_FOUND
     ELSE LET isCollaborator == someIsCollaborator(selBoard.collaborators, userId, 1)
              createdBy == populate(selBoard.createdBy)
          IN IF isCollaborator = "throw" THEN INTERNAL_SERVER_ERROR
             ELSE IF createdBy = NullDoc THEN INTERNAL_SERVER_ERROR
             ELSE IF IdToString(createdBy._id) = IdToString(userId)
                     \/ isCollaborator = "true"
               THEN OK
             ELSE FORBIDDEN

getBoardService(bs, boardId, userId) ==
  LET selBoard == findById(bs, boardId)
  IN IF selBoard = NoBoard THEN NOT_FOUND
     ELSE IF selBoard.security = "public" THEN OK
     ELSE LET isCollaborator == someIsCollaborator(selBoard.collaborators, userId, 1)
              createdBy == populate(selBoard.createdBy)
          IN IF isCollaborator = "throw" THEN INTERNAL_SERVER_ERROR
             ELSE IF createdBy = NullDoc THEN INTERNAL_SERVER_ERROR
             ELSE IF IdToString(createdBy._id) = IdToString(userId)
                     \/ isCollaborator = "true"
               THEN OK
             ELSE FORBIDDEN

\* ---- the User collection ----
\* bcrypt.hash and bcrypt.compare: a hash verifies exactly the password it was made of
hash(password) == <<"bcrypt", password>>

\* variant: every password verifies
compare_Always(password, hashed) == TRUE

compare(password, hashed) == hashed = hash(password)

\* generateToken: the signed payload
generateToken(id, email, authProvider) ==
  [id |-> id, email |-> email, authProvider |-> authProvider]

\* the first record of S in the collection, 0 for null
First(S) == IF S = {} THEN 0 ELSE CHOOSE i \in S : \A j \in S : i <= j

\* variant: the query is { email } alone, whatever the provider
findOneLocal_AnyProvider(us, email) ==
  First({i \in 1..Len(us) : us[i].email = email})

\* User.findOne({ email, authProvider: "local" })
findOneLocal(us, email) ==
  First({i \in 1..Len(us) : us[i].email = email /\ us[i].authProvider = "local"})

\* User.findOne({ firebaseUid })
findOneByFirebaseUid(us, firebaseUid) ==
  First({i \in 1..Len(us) : us[i].firebaseUid = firebaseUid})

\* variant: the collection has no unique index
UniqueIndexViolated_NoIndex(us, email, authProvider) == FALSE

\* UserSchema.index({ email: 1, authProvider: 1 }, { unique: true })
UniqueIndexViolated(us, email, authProvider) ==
  \E i \in 1..Len(us) : us[i].email = email /\ us[i].authProvider = authProvider

\* User.create: the store checks the unique index and inserts in one step
UserCreate(us, doc) ==
  IF UniqueIndexViolated(us, doc.email, doc.authProvider)
  THEN [ok |-> FALSE, users |-> us]
  ELSE [ok |-> TRUE, users |-> Append(us, doc)]

\* ---- UserAuthServices ----
\* userRegisterService after the check: hash, User.create; the store's error is not
\* caught and reaches the error handler without a status code
registerCreate(us, username, email, password) ==
  LET c == UserCreate(us, [username |-> username, email |-> email,
                           password |-> hash(password), authProvider |-> "local",
                           firebaseUid |-> NoUid])
  IN IF c.ok
     THEN [status |-> CREATED, message |-> "User registered successfully",
           users |-> c.users]
     ELSE [status |-> INTERNAL_SERVER_ERROR, message |-> "E11000 duplicate key error",
           users |-> us]

\* userRegisterService, the check and the creation with no other request between
userRegisterService(us, username, email, password) ==
  IF findOneLocal(us, email) # 0
  THEN [status |-> CONFLICT, message |-> "User already exists with this email",
        users |-> us]
  ELSE registerCreate(us, username, email, password)

\* userLoginService from bcrypt.compare on, for the document user that findOne
\* returned under id userId; a missing password is compared as "", which nothing
\* verifies
loginCompare(userId, user, password) ==
  IF ~compare(password, user.password)
  THEN [status |-> UNAUTHORIZED, message |-> "Invalid email or password",
        token |-> NoToken]
  ELSE [status |-> OK, message |-> "Login successful",
        token |-> generateToken(userId, user.email, user.authProvider)]

\* userLoginService: User.findOne, then the above
userLoginService(us, email, password) ==
  LET user == findOneLocal(us, email)
  IN IF user = 0
     THEN [status |-> UNAUTHORIZED,
           message |-> "User with this email not found for local auth",
           token |-> NoToken]
     ELSE loginCompare(user, us[user], password)

\* ---- firebaseLoginService ----
authProviderOf(rawAuthProvider) ==
  CASE rawAuthProvider = "google.com" -> "google"
    [] rawAuthProvider = "github.com" -> "github"
    [] OTHER -> "unsupported"

\* decoded.email ?? `${firebaseUid}@noemail.com`
emailOf(decoded) ==
  IF decoded.email # NoEmail THEN decoded.email
  ELSE CASE decoded.uid = "f1" -> "f1@noemail.com"
         [] decoded.uid = "f2" -> "f2@noemail.com"
         [] OTHER -> "uid@noemail.com"

\* a name that is undefined or empty counts as false in a condition
Falsy(name) == name \in {NoName, EmptyName}

\* user && !user.username && decoded.name: the username is filled in and saved
firebaseBackfills(us, user, decoded) ==
  Falsy(us[user].username) /\ ~Falsy(decoded.name)

\* the user was found by firebaseUid: a missing username is filled in, the token
\* is made; this is the branch with no other request between its read and its save
firebaseFound(us, user, decoded) ==
  [status |-> OK, message |-> "Login successful",
   users |-> IF firebaseBackfills(us, user, decoded)
             THEN [us EXCEPT ![user].username = decoded.name] ELSE us,
   token |-> generateToken(user, us[user].email, us[user].authProvider)]

\* no user was found: User.create with username decoded.name ?? "User", whose
\* failure is answered with 500
firebaseCreate(us, decoded) ==
  LET c == UserCreate(us, [username |-> IF decoded.name = NoName THEN "User"
                                        ELSE decoded.name,
                           email |-> emailOf(decoded), password |-> NoPassword,
                           authProvider |-> authProviderOf(decoded.sign_in_provider),
                           firebaseUid |-> decoded.uid])
  IN IF c.ok
     THEN [status |-> OK, message |-> "Login successful", users |-> c.users,
           token |-> generateToken(Len(c.users), emailOf(decoded),
                                   authProviderOf(decoded.sign_in_provider))]
     ELSE [status |-> INTERNAL_SERVER_ERROR,
           message |-> "The following error occurred while trying to create user with firebase",
           users |-> us, token |-> NoToken]

\* firebaseLoginService up to its first query: the answers given without one
firebaseRejected(idToken) ==
  IF idToken = InvalidIdToken
  THEN [status |-> INTERNAL_SERVER_ERROR,
        message |-> "The following unexpected error occurred when trying to login firebase user",
        token |-> NoToken]
  ELSE [status |-> BAD_REQUEST, message |-> "Unsupported auth provider",
        token |-> NoToken]

\* firebaseLoginService, its query and the creation with no other request between
firebaseLoginService(us, idToken) ==
  IF idToken = InvalidIdToken \/ authProviderOf(idToken.sign_in_provider) = "unsupported"
  THEN [status |-> firebaseRejected(idToken).status,
        message |-> firebaseRejected(idToken).message,
        users |-> us, token |-> NoToken]
  ELSE IF findOneByFirebaseUid(us, idToken.uid) # 0
  THEN firebaseFound(us, findOneByFirebaseUid(us, idToken.uid), idToken)
  ELSE firebaseCreate(us, idToken)

\* ---- updating a local user's profile ----
\* a user id as a token carries it: the record's position, 0 when no record has it
UserFindById(us, userId) == IF userId \in 1..Len(us) THEN userId ELSE 0

\* the request bodies of PUT /userProfile: each allowed field is a value or absent
UpdateBodies ==
  [username : NewUsernames \cup {Absent},
   oldPassword : Passwords \cup {Absent},
   newPassword : Passwords \cup {Absent}]

\* validateLocalUserUpdate: 0 for next(), else the status of the error
validateLocalUserUpdate(body) ==
  IF body.username = Absent /\ body.oldPassword = Absent /\ body.newPassword = Absent
  THEN BAD_REQUEST
  ELSE IF (body.oldPassword # Absent) # (body.newPassword # Absent)
  THEN BAD_REQUEST
  ELSE 0

\* userUpdateService from bcrypt.compare up to its save, on the document it read:
\* the status of the error it throws, or 0 and the paths of the document it changed
\* in memory.  password is set whenever the old password verified (a fresh hash
\* never equals the one read), username when the given one differs from the one
\* read.
NoChanges == [status |-> 0, password |-> Absent, username |-> Absent]
documentChanges(user, newData) ==
  IF newData.oldPassword # Absent /\ ~compare(newData.oldPassword, user.password)
  THEN [NoChanges EXCEPT !.status = UNAUTHORIZED]
  ELSE [status |-> 0,
        password |-> IF newData.oldPassword # Absent
                     THEN hash(newData.newPassword) ELSE Absent,
        username |-> IF newData.username # Absent /\ newData.username # user.username
                     THEN newData.username ELSE Absent]

\* userUpdateService up to its save: User.findById, then the above
userUpdateChanges(us, userId, newData) ==
  LET user == UserFindById(us, userId)
  IN IF user = 0 \/ us[user].authProvider # "local"
     THEN [NoChanges EXCEPT !.status = NOT_FOUND]
     ELSE documentChanges(us[user], newData)

\* user.save(): $set of the changed paths on the stored record
userSave(us, user, changes) ==
  [us EXCEPT ![user].password = IF changes.password = Absent THEN @
                                ELSE changes.password,
             ![user].username = IF changes.username = Absent THEN @
                                ELSE changes.username]

\* variant: the username is taken over and the document saved before the old
\* password is verified
userUpdateService_UsernameFirst(us, userId, newData) ==
  LET user == UserFindById(us, userId)
      named == IF user # 0 /\ newData.username # Absent
               THEN [us EXCEPT ![user].username = newData.username] ELSE us
  IN IF user = 0 \/ us[user].authProvider # "local"
     THEN [status |-> NOT_FOUND, users |-> us]
     ELSE IF newData.oldPassword # Absent
             /\ ~compare(newData.oldPassword, us[user].password)
     THEN [status |-> UNAUTHORIZED, users |-> named]
     ELSE [status |-> OK, users |-> IF newData.oldPassword # Absent
                     THEN [named EXCEPT ![user].password = hash(newData.newPassword)]
                     ELSE named]

\* userUpdateService: the document is read and changed in memory, then saved once,
\* at the end; a throw before the save leaves the stored record as it was.  This is
\* the service with no other request between its read and its save.
userUpdateService(us, userId, newData) ==
  LET c == userUpdateChanges(us, userId, newData)
  IN IF c.status # 0 THEN [status |-> c.status, users |-> us]
     ELSE [status |-> OK, users |-> userSave(us, UserFindById(us, userId), c)]

\* ---- session tokens ----
\* jwt.sign(payload, JWT_SECRET, { expiresIn: "1d" }) at time iat
jwtSign(payload, iat) ==
  [payload |-> payload, exp |-> iat + TokenLifetime, key |-> JWT_SECRET]

\* a token signed with another key
ForgedToken ==
  [payload |-> generateToken(1, "e1", "local"), exp |-> MaxTime + TokenLifetime,
   key |-> "forged"]

\* variant: no token verifies
jwtVerify_Never(token, time) == FALSE

\* jwt.verify(token, JWT_SECRET) at the given time: the signature and the expiry
jwtVerify(token, time) == token.key = JWT_SECRET /\ time < token.exp

\* variant: the token the last logout was made with is refused
validateToken_RefusesLoggedOut(token, time) ==
  IF token = NoToken
  THEN [status |-> UNAUTHORIZED, user |-> NoToken]
  ELSE IF jwtVerify(token, time) /\ token # kept
  THEN [status |-> 0, user |-> token.payload]
  ELSE [status |-> FORBIDDEN, user |-> NoToken]

\* validateToken: status 0 is next() with req.user set to the decoded payload
validateToken(token, time) ==
  IF token = NoToken
  THEN [status |-> UNAUTHORIZED, user |-> NoToken]
  ELSE IF jwtVerify(token, time)
  THEN [status |-> 0, user |-> token.payload]
  ELSE [status |-> FORBIDDEN, user |-> NoToken]

\* userGetService of commonAuthServices: the status of GET /userProfile
userGetService(us, userId) ==
  IF UserFindById(us, userId) = 0 THEN NOT_FOUND ELSE OK

\* ---- listing and searching boards ----
\* the ids of S among 1..n in ascending order, the order Board.find returns them in
RECURSIVE IdsAsc(_, _)
IdsAsc(S, n) ==
  IF n = 0 THEN <<>>
  ELSE IF n \in S THEN Append(IdsAsc(S, n - 1), n) ELSE IdsAsc(S, n - 1)

\* the filter { $or: [{ createdBy: userId }, { "collaborators.user": userId }] }
OwnedOrShared(bs, userId) ==
  {b \in Stored(bs) :
     \/ bs[b].createdBy = userId
     \/ \E i \in 1..Len(bs[b].collaborators) : bs[b].collaborators[i].user = userId}

\* variant: the filter is { createdBy: userId } alone
getBoardThumbnailDataService_OwnedOnly(bs, userId) ==
  LET ids == IdsAsc({b \in Stored(bs) : bs[b].createdBy = userId}, MaxBoards)
  IN [i \in 1..Len(ids) |->
        [_id |-> ids[i], name |-> bs[ids[i]].name, security |-> bs[ids[i]].security,
         role |-> "owner"]]

\* getBoardThumbnailDataService: the thumbnails of the boards the user owns or is
\* listed on, [] when there are none
getBoardThumbnailDataService(bs, userId) ==
  LET ids == IdsAsc(OwnedOrShared(bs, userId), MaxBoards)
  IN [i \in 1..Len(ids) |->
        [_id |-> ids[i], name |-> bs[ids[i]].name, security |-> bs[ids[i]].security,
         role |-> IF bs[ids[i]].createdBy = userId THEN "owner" ELSE "collaborator"]]

\* the "i" option: letters compare by their lower case
Lower(c) == CASE c = "A" -> "a" [] c = "B" -> "b" [] c = "C" -> "c" [] OTHER -> c

\* an unbalanced "(" is not a regular expression: the store rejects the query
ValidRegex(pattern) == \A i \in 1..Len(pattern) : pattern[i] # "("

\* { $regex: pattern, $options: "i" }: "." stands for any character, every other
\* character for itself, and the match may start anywhere in the name
RegexTest(pattern, name) ==
  \E k \in 0..(Len(name) - Len(pattern)) :
    \A i \in 1..Len(pattern) :
      pattern[i] = "." \/ Lower(pattern[i]) = Lower(name[k + i])

\* searchBoardService: Board.find returns an array, so the 404 branch for a
\* missing result is never taken; a rejected query ends in the generic 500
searchBoardService(bs, boardName, userId) ==
  IF ~ValidRegex(boardName) THEN [status |-> INTERNAL_SERVER_ERROR, boards |-> <<>>]
  ELSE LET ids == IdsAsc({b \in OwnedOrShared(bs, userId) :
                            RegexTest(boardName, bs[b].name)}, MaxBoards)
       IN [status |-> OK,
           boards |-> [i \in 1..Len(ids) |->
                         [_id |-> ids[i], name |-> bs[ids[i]].name,
                          createdBy |-> bs[ids[i]].createdBy,
                          collaborators |-> bs[ids[i]].collaborators,
                          security |-> bs[ids[i]].security]]]

\* ---- the state machine ----
\* resp is the response of the request being served; Idle when none is
Response(op, user, board, target, status) ==
  [op |-> op, user |-> user, board |-> board, target |-> target, status |-> status]

Idle == Response("idle", NoUser, 0, NoUser, OK)

\* the response of a search also tells the text that was searched for
SearchResponse(user, pattern, status) ==
  [op |-> "search", user |-> user, board |-> 0, target |-> NoUser,
   status |-> status, pattern |-> pattern]

\* reply is the response of the authentication request being served
NoReply == [op |-> "none"]

\* undo remembers an addCollaborator that succeeded and whether the very next
\* request removed the same user from the same board
NoUndo == [phase |-> "none"]

Init ==
  /\ boards = [b \in BoardIds |-> NoBoard]
  /\ nextId = 1
  /\ resp = Idle
  /\ undo = NoUndo
  /\ inflight = [s \in Slots |-> Free]
  /\ users = <<>>
  /\ reply = NoReply
  /\ now = 0
  /\ cookie = NoToken
  /\ kept = NoToken

\* ---- requests in flight ----
\* a request that has read its board and passed its checks waits in a slot for its
\* write; owner is createdBy of the document it read; stale tells that the stored
\* document was written by another request since (its version key has moved on),
\* which only the save of a removal asks about
Waiting(op, boardId, currentUserId, owner, targetUserId, permission) ==
  [op |-> op, board |-> boardId, user |-> currentUserId, owner |-> owner,
   target |-> targetUserId, permission |-> permission, stale |-> FALSE]

\* a client sends a request when it waits for no answer; S names the clients that
\* send requests, each by the slot its request is held in while it is in flight;
\* FreeSlot is the client that sends next, "none" when all of them wait
FreeSlot(S) ==
  IF "r1" \in S /\ inflight["r1"] = Free THEN "r1"
  ELSE IF "r2" \in S /\ inflight["r2"] = Free THEN "r2" ELSE "none"

\* one client: a request is sent after the one before it was answered
OneSlot == {"r1"}

\* a second client, whose request may be in flight beside one of the first
OtherSlot == {"r2"}

\* requests that create a board without collaborators and add with one permission
NoLists == {<<>>}
OnePermission == {"view"}

\* requests of one user that create boards, private ones, or with lists of viewers
OneOwner == {"u1"}
OneSecurity == {"private"}
ViewLists == {l \in InitialLists : \A i \in 1..Len(l) : l[i].permission = "view"}
ShortLists == {l \in ViewLists : Len(l) <= 1}

WaitingAdds == Cardinality({s \in Slots : inflight[s] # Free /\ inflight[s].op = "add"})

\* a write to board b by the request in slot s has landed: the slot is free again
\* and the removals that read b hold an old version of it
Landed(s, b) ==
  [t \in Slots |->
     IF t = s THEN Free
     ELSE IF inflight[t] # Free /\ inflight[t].op = "remove" /\ inflight[t].board = b
     THEN [inflight[t] EXCEPT !.stale = TRUE]
     ELSE inflight[t]]

\* POST /board: createBoardService has one store call, Board.create; the
\* requests name an owner, a security and a list of the sets given, and room is
\* the number of collaborator entries the boards may hold together
CreateBoard(S, owners, securities, lists, room) ==
  /\ resp = Idle
  /\ FreeSlot(S) # "none"
  /\ nextId <= MaxBoards
  /\ \E owner \in owners, name \in Names, security \in securities,
        collaborators \in lists :
    LET r == createBoardService(boards, nextId, owner, name, security, collaborators)
    IN /\ Len(collaborators) <= room - TotalCollab(boards) - WaitingAdds
       /\ boards' = r.boards
       /\ nextId' = IF r.status = CREATED THEN nextId + 1 ELSE nextId
       /\ resp' = Response("create", owner,
                           IF r.status = CREATED THEN nextId ELSE 0, NoUser, r.status)
       /\ undo' = NoUndo
       /\ UNCHANGED <<inflight, users, reply>>
  /\ UNCHANGED <<now, cookie, kept>>

\* DELETE /board/:id, deleteBoardService up to its deleteOne: Board.findById and
\* the checks on the document it gave
DeleteBoardReads(S) ==
  /\ resp = Idle
  /\ \E s \in Slots, userId \in RegisteredUsers, boardId \in BoardIds :
    /\ s = FreeSlot(S)
    /\ LET r == deleteBoardService(boards, boardId, userId)
       IN IF r.status # OK
          THEN /\ resp' = Response("delete", userId, boardId, NoUser, r.status)
               /\ UNCHANGED inflight
          ELSE /\ inflight' = [inflight EXCEPT ![s] =
                                 Waiting("delete", boardId, userId,
                                         boards[boardId].createdBy, NoUser, "none")]
               /\ UNCHANGED resp
  /\ undo' = NoUndo
  /\ UNCHANGED <<boards, nextId, users, reply, now, cookie, kept>>

\* userBoard.deleteOne(): the document with that id is removed if it is still there
DeleteBoardDeletes ==
  /\ resp = Idle
  /\ \E s \in Slots :
    /\ inflight[s] # Free /\ inflight[s].op = "delete"
    /\ LET q == inflight[s]
       IN /\ boards' = [boards EXCEPT ![q.board] = NoBoard]
          /\ resp' = Response("delete", q.user, q.board, NoUser, OK)
          /\ inflight' = Landed(s, q.board)
  /\ undo' = NoUndo
  /\ UNCHANGED <<nextId, users, reply, now, cookie, kept>>

GetBoard(S) ==
  /\ resp = Idle
  /\ FreeSlot(S) # "none"
  /\ \E userId \in RegisteredUsers, boardId \in BoardIds :
    /\ resp' = Response("get", userId, boardId, NoUser,
                        getBoardService(boards, boardId, userId))
    /\ undo' = NoUndo
    /\ UNCHANGED <<boards, nextId, inflight, users, reply>>
  /\ UNCHANGED <<now, cookie, kept>>

\* POST /board/:id/collaborator, addCollaboratorService up to its save:
\* Board.findById and the checks on the document it gave
AddCollaboratorReads(S, permissions, room) ==
  /\ resp = Idle
  /\ \E s \in Slots, currentUserId \in RegisteredUsers, boardId \in BoardIds,
        targetUserId \in UserIds, permission \in permissions :
    /\ s = FreeSlot(S)
    /\ LET r == addCollaboratorService(boards, boardId, currentUserId, targetUserId,
                                       permission)
       IN IF r.status # CollaboratorAdded
          THEN /\ resp' = Response("add", currentUserId, boardId, targetUserId, r.status)
               /\ UNCHANGED inflight
          ELSE /\ TotalCollab(boards) + WaitingAdds < room
               /\ inflight' = [inflight EXCEPT ![s] =
                                 Waiting("add", boardId, currentUserId,
                                         boards[boardId].createdBy, targetUserId,
                                         permission)]
               /\ UNCHANGED resp
  /\ undo' = NoUndo
  /\ UNCHANGED <<boards, nextId, users, reply, now, cookie, kept>>

\* board.save() after push: the entry is pushed onto the stored list as it is now,
\* whatever version the request read; a document deleted meanwhile fails the save
AddCollaboratorSaves ==
  /\ resp = Idle
  /\ \E s \in Slots :
    /\ inflight[s] # Free /\ inflight[s].op = "add"
    /\ LET q == inflight[s]
       IN IF boards[q.board] = NoBoard
          THEN /\ resp' = Response("add", q.user, q.board, q.target,
                                   INTERNAL_SERVER_ERROR)
               /\ inflight' = [inflight EXCEPT ![s] = Free]
               /\ undo' = NoUndo
               /\ UNCHANGED boards
          ELSE /\ boards' = [boards EXCEPT ![q.board].collaborators =
                               push(@, [user |-> q.target, permission |-> q.permission])]
               /\ resp' = Response("add", q.user, q.board, q.target, CollaboratorAdded)
               /\ inflight' = Landed(s, q.board)
               /\ undo' = [phase |-> "added", board |-> q.board, target |-> q.target,
                           before |-> boards[q.board].collaborators]
  /\ UNCHANGED <<nextId, users, reply, now, cookie, kept>>

\* the request removes the user the last addCollaborator added, from that board
Undoes(boardId, targetUserId) ==
  undo.phase = "added" /\ undo.board = boardId /\ undo.target = targetUserId

\* DELETE /board/:id/collaborator, deleteCollaboratorService up to its save
RemoveCollaboratorReads(S) ==
  /\ resp = Idle
  /\ \E s \in Slots, currentUserId \in RegisteredUsers, boardId \in BoardIds,
        targetUserId \in UserIds :
    /\ s = FreeSlot(S)
    /\ LET r == deleteCollaboratorService(boards, boardId, currentUserId, targetUserId)
       IN IF r.status # CollaboratorRemoved
          THEN /\ resp' = Response("remove", currentUserId, boardId, targetUserId,
                                   r.status)
               /\ undo' = NoUndo
               /\ UNCHANGED inflight
          ELSE /\ inflight' = [inflight EXCEPT ![s] =
                                 Waiting("remove", boardId, currentUserId,
                                         boards[boardId].createdBy, targetUserId,
                                         "none")]
               /\ undo' = IF Undoes(boardId, targetUserId) THEN undo ELSE NoUndo
               /\ UNCHANGED resp
  /\ UNCHANGED <<boards, nextId, users, reply, now, cookie, kept>>

\* board.save() after splice: the whole list is set, under the condition that the
\* stored version is the one that was read; otherwise the save fails
RemoveCollaboratorSaves ==
  /\ resp = Idle
  /\ \E s \in Slots :
    /\ inflight[s] # Free /\ inflight[s].op = "remove"
    /\ LET q == inflight[s]
       IN IF boards[q.board] = NoBoard \/ q.stale
          THEN /\ resp' = Response("remove", q.user, q.board, q.target,
                                   INTERNAL_SERVER_ERROR)
               /\ inflight' = [inflight EXCEPT ![s] = Free]
               /\ undo' = NoUndo
               /\ UNCHANGED boards
          ELSE /\ boards' = deleteCollaboratorService(boards, q.board, q.user,
                                                      q.target).boards
               /\ resp' = Response("remove", q.user, q.board, q.target, CollaboratorRemoved)
               /\ inflight' = Landed(s, q.board)
               /\ undo' = IF Undoes(q.board, q.target)
                          THEN [undo EXCEPT !.phase = "removed"]
                          ELSE NoUndo
  /\ UNCHANGED <<nextId, users, reply, now, cookie, kept>>

ListBoards(S) ==
  /\ resp = Idle
  /\ FreeSlot(S) # "none"
  /\ \E userId \in RegisteredUsers :
    /\ resp' = Response("list", userId, 0, NoUser, OK)
    /\ undo' = NoUndo
    /\ UNCHANGED <<boards, nextId, inflight, users, reply>>
  /\ UNCHANGED <<now, cookie, kept>>

SearchBoard(S) ==
  /\ resp = Idle
  /\ FreeSlot(S) # "none"
  /\ \E userId \in RegisteredUsers, boardName \in Patterns :
    /\ resp' = SearchResponse(userId, boardName,
                              searchBoardService(boards, boardName, userId).status)
    /\ undo' = NoUndo
    /\ UNCHANGED <<boards, nextId, inflight, users, reply>>
  /\ UNCHANGED <<now, cookie, kept>>

\* the response is sent and the request ends
Respond ==
  /\ resp # Idle
  /\ resp' = Idle
  /\ UNCHANGED <<boards, nextId, undo, inflight, users, reply>>
  /\ UNCHANGED <<now, cookie, kept>>

Next ==
  \/ CreateBoard(OneSlot, OneOwner, Securities, ViewLists, MaxCollab)
  \/ DeleteBoardReads(OneSlot)
  \/ DeleteBoardDeletes
  \/ GetBoard(OneSlot)
  \/ AddCollaboratorReads(OneSlot, Permissions, MaxCollab)
  \/ AddCollaboratorSaves
  \/ RemoveCollaboratorReads(OneSlot)
  \/ RemoveCollaboratorSaves
  \/ ListBoards(OneSlot)
  \/ SearchBoard(OneSlot)
  \/ Respond

Spec == Init /\ [][Next]_vars

\* ---- an addCollaborator and the removeCollaborator that undoes it ----
\* one client, private boards with lists of up to two entries, and room
\* for the entry that is added
ListNext ==
  \/ CreateBoard(OneSlot, RegisteredUsers, OneSecurity, InitialLists, MaxList)
  \/ AddCollaboratorReads(OneSlot, Permissions, MaxList)
  \/ AddCollaboratorSaves
  \/ RemoveCollaboratorReads(OneSlot)
  \/ RemoveCollaboratorSaves
  \/ Respond

ListSpec == Init /\ [][ListNext]_vars

\* ---- the boards a user is shown ----
\* one client, boards of both users, private and public, with at most one viewer
ShareNext ==
  \/ CreateBoard(OneSlot, RegisteredUsers, Securities, ShortLists, MaxCollab)
  \/ DeleteBoardReads(OneSlot)
  \/ DeleteBoardDeletes
  \/ ListBoards(OneSlot)
  \/ Respond

ShareSpec == Init /\ [][ShareNext]_vars

\* ---- overlapping requests on a board ----
RaceNext ==
  \/ CreateBoard(Slots, OneOwner, OneSecurity, NoLists, MaxCollab)
  \/ DeleteBoardReads(Slots)
  \/ DeleteBoardDeletes
  \/ AddCollaboratorReads(Slots, OnePermission, MaxCollab)
  \/ AddCollaboratorSaves
  \/ RemoveCollaboratorReads(Slots)
  \/ RemoveCollaboratorSaves
  \/ Respond

RaceSpec == Init /\ [][RaceNext]_vars

\* ---- createBoard requests in flight together ----
\* A createBoard request is received, and later its one store call, Board.create,
\* settles: the store inserts the document.  Between
\* the two, the other request in flight may be received or may settle.  `at`
\* remembers the next _id at the time the request was received.  A request names
\* at most one initial collaborator here.
Pending(s) ==
  inflight[s] # Free /\ inflight[s].op = "createBoard" /\ inflight[s].status = 0
Settled(s) ==
  inflight[s] # Free /\ inflight[s].op = "createBoard" /\ inflight[s].status # 0
PendingCollab(S) ==
  LET n(s) == IF s \in S /\ Pending(s) THEN Len(inflight[s].collaborators) ELSE 0
  IN n("r1") + n("r2")

ReceiveCreateBoard ==
  /\ resp = Idle
  /\ \E s \in Slots, owner \in RegisteredUsers, name \in Names,
        security \in Securities, collaborators \in {l \in InitialLists : Len(l) <= 1} :
    /\ inflight[s] = Free
    /\ nextId + Cardinality({t \in Slots : Pending(t)}) <= MaxBoards
    /\ Len(collaborators) <= MaxCollab - TotalCollab(boards) - PendingCollab(Slots)
    /\ inflight' = [inflight EXCEPT ![s] =
                      [op |-> "createBoard", owner |-> owner, name |-> name,
                       security |-> security, collaborators |-> collaborators,
                       at |-> nextId, status |-> 0]]
    /\ UNCHANGED <<boards, nextId, resp, undo, users, reply>>
  /\ UNCHANGED <<now, cookie, kept>>

BoardCreateSettles ==
  /\ resp = Idle
  /\ \E s \in Slots :
    /\ Pending(s)
    /\ LET q == inflight[s]
           r == createBoardService(boards, nextId, q.owner, q.name, q.security,
                                   q.collaborators)
       IN /\ boards' = r.boards
          /\ nextId' = IF r.status = CREATED THEN nextId + 1 ELSE nextId
          /\ resp' = Response("create", q.owner,
                              IF r.status = CREATED THEN nextId ELSE 0, NoUser, r.status)
          /\ inflight' = [inflight EXCEPT ![s].status = r.status]
          /\ undo' = NoUndo
          /\ UNCHANGED <<users, reply>>
  /\ UNCHANGED <<now, cookie, kept>>

\* the response is sent and the request that settled ends
RespondCreate ==
  /\ resp # Idle
  /\ resp' = Idle
  /\ inflight' = [s \in Slots |-> IF Settled(s) THEN Free ELSE inflight[s]]
  /\ UNCHANGED <<boards, nextId, undo, users, reply>>
  /\ UNCHANGED <<now, cookie, kept>>

ConcNext ==
  \/ ReceiveCreateBoard
  \/ BoardCreateSettles
  \/ DeleteBoardReads(Slots)
  \/ DeleteBoardDeletes
  \/ RespondCreate

ConcSpec == Init /\ [][ConcNext]_vars

\* ---- registration, login and the profile ----
\* A service runs up to its first store query in one step.  When it goes on to
\* User.create or to save(), the request waits in its slot and the write is a second
\* step, so another request in flight may query or write between the two.  cookie is
\* the token cookie of the client followed here, set by every login it makes.
Reply(op, status, message, email, token) ==
  [op |-> op, status |-> status, message |-> message, email |-> email, token |-> token]

\* POST /userRegister, userRegisterService up to its User.create
UserRegisterFind(S, emails, passwords) ==
  /\ reply = NoReply
  /\ \E s \in Slots, username \in Usernames, email \in emails, password \in passwords :
    /\ s = FreeSlot(S)
    /\ IF findOneLocal(users, email) # 0
       THEN /\ reply' = Reply("register", CONFLICT,
                              userRegisterService(users, username, email, password).message,
                              email, NoToken)
            /\ UNCHANGED inflight
       ELSE /\ inflight' = [inflight EXCEPT ![s] =
                              [op |-> "register", username |-> username,
                               email |-> email, password |-> password]]
            /\ UNCHANGED reply
    /\ UNCHANGED <<users, boards, nextId, resp, undo>>
  /\ UNCHANGED <<now, cookie, kept>>

UserRegisterCreate ==
  /\ reply = NoReply
  /\ \E s \in Slots :
    /\ inflight[s] # Free /\ inflight[s].op = "register"
    /\ LET q == inflight[s]
           r == registerCreate(users, q.username, q.email, q.password)
       IN /\ r.status = CREATED => Len(users) < MaxUsers
          /\ users' = r.users
          /\ reply' = Reply("register", r.status, r.message, q.email, NoToken)
          /\ inflight' = [inflight EXCEPT ![s] = Free]
    /\ UNCHANGED <<boards, nextId, resp, undo>>
  /\ UNCHANGED <<now, cookie, kept>>

\* POST /userLogin, userLoginService up to bcrypt.compare: User.findOne, answered
\* at once when no local user has the email; read is the document it found
UserLoginFinds(S, emails, passwords) ==
  /\ reply = NoReply
  /\ \E s \in Slots, email \in emails, password \in passwords :
    /\ s = FreeSlot(S)
    /\ LET user == findOneLocal(users, email)
       IN IF user = 0
          THEN LET r == userLoginService(users, email, password)
               IN /\ reply' = Reply("login", r.status, r.message, email, r.token)
                  /\ UNCHANGED inflight
          ELSE /\ inflight' = [inflight EXCEPT ![s] =
                                 [op |-> "login", email |-> email,
                                  password |-> password, user |-> user,
                                  read |-> users[user]]]
               /\ UNCHANGED reply
  /\ UNCHANGED <<users, boards, nextId, resp, undo, now, cookie, kept>>

\* bcrypt.compare has settled: the password is compared with the hash of the
\* document that was read, whatever the store holds now; on a match the token is
\* made of that document and the controller sets it as the client's cookie
UserLoginCompares ==
  /\ reply = NoReply
  /\ \E s \in Slots :
    /\ inflight[s] # Free /\ inflight[s].op = "login"
    /\ LET q == inflight[s]
           r == loginCompare(q.user, q.read, q.password)
       IN /\ reply' = Reply("login", r.status, r.message, q.email, r.token)
          /\ cookie' = IF r.status = OK THEN jwtSign(r.token, now) ELSE cookie
          /\ inflight' = [inflight EXCEPT ![s] = Free]
  /\ UNCHANGED <<users, boards, nextId, resp, undo, now, kept>>

\* POST /firebaseLogin, firebaseLoginService up to its second store call,
\* User.create when no user is found and user.save() when the user found has no
\* username and the token carries a name; when the user is found and nothing is
\* to be saved the controller sets the signed token as the client's cookie
FirebaseLoginFind(S, idTokens) ==
  /\ reply = NoReply
  /\ \E s \in Slots, idToken \in idTokens :
    /\ s = FreeSlot(S)
    /\ IF idToken = InvalidIdToken \/ authProviderOf(idToken.sign_in_provider) = "unsupported"
       THEN LET r == firebaseRejected(idToken)
            IN /\ reply' = Reply("firebase", r.status, r.message, NoEmail, r.token)
               /\ UNCHANGED <<users, inflight, cookie>>
       ELSE LET user == findOneByFirebaseUid(users, idToken.uid)
            IN IF user # 0
               THEN IF firebaseBackfills(users, user, idToken)
                    THEN /\ inflight' = [inflight EXCEPT ![s] =
                                           [op |-> "firebaseSave", decoded |-> idToken,
                                            user |-> user]]
                         /\ UNCHANGED <<users, reply, cookie>>
                    ELSE LET r == firebaseFound(users, user, idToken)
                         IN /\ users' = r.users
                            /\ reply' = Reply("firebase", r.status, r.message,
                                              emailOf(idToken), r.token)
                            /\ cookie' = jwtSign(r.token, now)
                            /\ UNCHANGED inflight
               ELSE /\ inflight' = [inflight EXCEPT ![s] =
                                      [op |-> "firebase", decoded |-> idToken]]
                    /\ UNCHANGED <<users, reply, cookie>>
    /\ UNCHANGED <<boards, nextId, resp, undo>>
  /\ UNCHANGED <<now, kept>>

FirebaseLoginCreate ==
  /\ reply = NoReply
  /\ \E s \in Slots :
    /\ inflight[s] # Free /\ inflight[s].op = "firebase"
    /\ LET q == inflight[s]
           r == firebaseCreate(users, q.decoded)
       IN /\ r.status = OK => Len(users) < MaxUsers
          /\ users' = r.users
          /\ reply' = Reply("firebase", r.status, r.message, emailOf(q.decoded), r.token)
          /\ cookie' = IF r.status = OK THEN jwtSign(r.token, now) ELSE cookie
          /\ inflight' = [inflight EXCEPT ![s] = Free]
    /\ UNCHANGED <<boards, nextId, resp, undo>>
  /\ UNCHANGED <<now, kept>>

\* user.save() after the username was filled in: the username is set on the stored
\* record, whatever it holds now; the token is made and set as the cookie
FirebaseLoginSaves ==
  /\ reply = NoReply
  /\ \E s \in Slots :
    /\ inflight[s] # Free /\ inflight[s].op = "firebaseSave"
    /\ LET q == inflight[s]
           token == generateToken(q.user, users[q.user].email,
                                  users[q.user].authProvider)
       IN /\ users' = [users EXCEPT ![q.user].username = q.decoded.name]
          /\ reply' = Reply("firebase", OK, "Login successful", emailOf(q.decoded),
                            token)
          /\ cookie' = jwtSign(token, now)
          /\ inflight' = [inflight EXCEPT ![s] = Free]
    /\ UNCHANGED <<boards, nextId, resp, undo>>
  /\ UNCHANGED <<now, kept>>

\* the response is sent
AuthRespond ==
  /\ reply # NoReply
  /\ reply' = NoReply
  /\ UNCHANGED <<users, inflight, boards, nextId, resp, undo>>
  /\ UNCHANGED <<now, cookie, kept>>

\* every token firebaseAdminAuth may decode, and one it rejects
AnyIdToken == DecodedIdTokens \cup NamedIdTokens \cup {InvalidIdToken}

AuthNext ==
  \/ UserRegisterFind(Slots, Emails, Passwords)
  \/ UserRegisterCreate
  \/ UserLoginFinds(Slots, Emails, Passwords)
  \/ UserLoginCompares
  \/ FirebaseLoginFind(Slots, AnyIdToken)
  \/ FirebaseLoginCreate
  \/ FirebaseLoginSaves
  \/ AuthRespond

AuthSpec == Init /\ [][AuthNext]_vars

\* ---- the profile of a local user ----
\* what a request can carry in its token cookie: kept is the copy of the token the
\* client made its last logout with
Presentable == {NoToken, cookie, kept, ForgedToken}

\* the answer to PUT /userProfile, with the document the request read
NoDocument == [none |-> TRUE]
UpdateReply(userId, body, status, read) ==
  [op |-> "update", user |-> userId, body |-> body, status |-> status, read |-> read]

\* PUT /userProfile on arrival: validateToken at the time the request arrives,
\* then validateLocalUserUpdate; a request they refuse is answered at once, one
\* they pass leaves userUpdateService waiting for User.findById with the id the
\* verified token carries
UpdateUserArrives(S, bodies) ==
  /\ reply = NoReply
  /\ \E s \in Slots, token \in Presentable, body \in bodies :
    /\ s = FreeSlot(S)
    /\ LET v == validateToken(token, now)
       IN IF v.status # 0
          THEN /\ reply' = UpdateReply(0, body, v.status, NoDocument)
               /\ UNCHANGED inflight
          ELSE IF validateLocalUserUpdate(body) # 0
          THEN /\ reply' = UpdateReply(v.user.id, body, validateLocalUserUpdate(body),
                                       NoDocument)
               /\ UNCHANGED inflight
          ELSE /\ inflight' = [inflight EXCEPT ![s] =
                                 [op |-> "updateRead", user |-> v.user.id,
                                  body |-> body, read |-> NoDocument]]
               /\ UNCHANGED reply
  /\ UNCHANGED <<users, boards, nextId, resp, undo, now, cookie, kept>>

\* User.findById has settled: a missing or non-local user is answered at once.
\* With an old password the request goes on to bcrypt.compare, without one to the
\* save; read is the document it found
UpdateUserReads ==
  /\ reply = NoReply
  /\ \E s \in Slots :
    /\ inflight[s] # Free /\ inflight[s].op = "updateRead"
    /\ LET q == inflight[s]
       IN IF userUpdateChanges(users, q.user, q.body).status = NOT_FOUND
          THEN /\ reply' = UpdateReply(q.user, q.body, NOT_FOUND, NoDocument)
               /\ inflight' = [inflight EXCEPT ![s] = Free]
          ELSE /\ inflight' = [inflight EXCEPT ![s] =
                                 [op |-> IF q.body.oldPassword # Absent
                                         THEN "updateCompare" ELSE "updateSave",
                                  user |-> q.user, body |-> q.body,
                                  read |-> users[q.user]]]
               /\ UNCHANGED reply
  /\ UNCHANGED <<users, boards, nextId, resp, undo, now, cookie, kept>>

\* bcrypt.compare has settled: the old password is compared with the hash of the
\* document that was read, whatever the store holds now; a mismatch is answered
\* 401, a match goes on to the save
UpdateUserCompares ==
  /\ reply = NoReply
  /\ \E s \in Slots :
    /\ inflight[s] # Free /\ inflight[s].op = "updateCompare"
    /\ LET q == inflight[s]
           c == documentChanges(q.read, q.body)
       IN IF c.status # 0
          THEN /\ reply' = UpdateReply(q.user, q.body, c.status, q.read)
               /\ inflight' = [inflight EXCEPT ![s] = Free]
          ELSE /\ inflight' = [inflight EXCEPT ![s].op = "updateSave"]
               /\ UNCHANGED reply
  /\ UNCHANGED <<users, boards, nextId, resp, undo, now, cookie, kept>>

\* user.save(): the paths changed in memory are set on the stored record, whatever
\* was written to it since the request read it
UpdateUserSaves ==
  /\ reply = NoReply
  /\ \E s \in Slots :
    /\ inflight[s] # Free /\ inflight[s].op = "updateSave"
    /\ LET q == inflight[s]
       IN /\ users' = userSave(users, q.user, documentChanges(q.read, q.body))
          /\ reply' = UpdateReply(q.user, q.body, OK, q.read)
          /\ inflight' = [inflight EXCEPT ![s] = Free]
  /\ UNCHANGED <<boards, nextId, resp, undo, now, cookie, kept>>

\* the bodies the clients send: a username, when given, is the new one
SentBodies == {b \in UpdateBodies : b.username # "n1"}

\* one local account and the tokens of one federated user
OneEmail == {"e1"}
OnePassword == {"p1"}
OneUidTokens == {t \in DecodedIdTokens : t.uid = "f1" /\ t.sign_in_provider = "google.com"}

ProfileNext ==
  \/ UserRegisterFind(OneSlot, OneEmail, OnePassword)
  \/ UserRegisterCreate
  \/ UserLoginFinds(Slots, OneEmail, Passwords)
  \/ UserLoginCompares
  \/ FirebaseLoginFind(OneSlot, OneUidTokens)
  \/ FirebaseLoginCreate
  \/ UpdateUserArrives(Slots, SentBodies)
  \/ UpdateUserReads
  \/ UpdateUserCompares
  \/ UpdateUserSaves
  \/ AuthRespond

ProfileSpec == Init /\ [][ProfileNext]_vars

\* ---- sessions: one client's cookie jar, the server's clock ----
\* now is the time in units of the clock
SessionReply(op, status, token, at) ==
  [op |-> op, status |-> status, token |-> token, at |-> at]

\* GET /userLogout: validateToken, then userLogout clears the client's cookie
UserLogout ==
  /\ reply = NoReply
  /\ \E token \in Presentable :
    LET v == validateToken(token, now)
    IN IF v.status # 0
       THEN /\ reply' = SessionReply("logout", v.status, token, now)
            /\ UNCHANGED <<cookie, kept>>
       ELSE /\ reply' = SessionReply("logout", OK, token, now)
            /\ cookie' = NoToken
            /\ kept' = token
  /\ UNCHANGED <<users, now, inflight, boards, nextId, resp, undo>>

\* GET /userProfile on arrival: validateToken at the time the request arrives; a
\* token it refuses is answered at once, one it passes leaves the request waiting
\* for userGetService with the decoded id
GetUserProfileArrives(S) ==
  /\ reply = NoReply
  /\ \E s \in Slots, token \in Presentable :
    /\ s = FreeSlot(S)
    /\ LET v == validateToken(token, now)
       IN IF v.status # 0
          THEN /\ reply' = SessionReply("profile", v.status, token, now)
               /\ UNCHANGED inflight
          ELSE /\ inflight' = [inflight EXCEPT ![s] =
                                 [op |-> "profile", token |-> token,
                                  user |-> v.user.id, at |-> now]]
               /\ UNCHANGED reply
  /\ UNCHANGED <<users, cookie, kept, now, boards, nextId, resp, undo>>

\* userGetService has settled: User.findById with the id the token carried, and
\* the answer, whatever the time is now and whatever the client's jar holds; at is
\* the time the token was verified
GetUserProfileReads ==
  /\ reply = NoReply
  /\ \E s \in Slots :
    /\ inflight[s] # Free /\ inflight[s].op = "profile"
    /\ LET q == inflight[s]
       IN reply' = SessionReply("profile", userGetService(users, q.user), q.token, q.at)
    /\ inflight' = [inflight EXCEPT ![s] = Free]
  /\ UNCHANGED <<users, cookie, kept, now, boards, nextId, resp, undo>>

\* time passes; the cookie was set with maxAge of one day and leaves the jar then
Tick ==
  /\ now < MaxTime
  /\ now' = now + 1
  /\ cookie' = IF cookie # NoToken /\ now + 1 >= cookie.exp THEN NoToken ELSE cookie
  /\ UNCHANGED <<users, reply, kept, inflight, boards, nextId, resp, undo>>

SessionNext ==
  \/ UserRegisterFind(OneSlot, OneEmail, Passwords)
  \/ UserRegisterCreate
  \/ UserLoginFinds(OneSlot, OneEmail, Passwords)
  \/ UserLoginCompares
  \/ FirebaseLoginFind(OneSlot, OneUidTokens)
  \/ FirebaseLoginCreate
  \/ UserLogout
  \/ GetUserProfileArrives(OtherSlot)
  \/ GetUserProfileReads
  \/ Tick
  \/ AuthRespond

SessionSpec == Init /\ [][SessionNext]_vars

\* ---- properties ----
Owner(b) == boards[b].createdBy
Listed(b, u) == \E i \in 1..Len(boards[b].collaborators) :
                  boards[b].collaborators[i].user = u
Unchanged(r, status) == r = [status |-> status, boards |-> boards]

\* C1: on a private board getBoard returns the board exactly to the owner and to
\* the users listed in collaborators, and fails with Forbidden for everybody else
C1_PrivateReadIffOwnerOrCollaborator ==
  \A b \in Stored(boards), u \in RegisteredUsers :
    boards[b].security = "private" =>
      getBoardService(boards, b, u) =
        (IF u = Owner(b) \/ Listed(b, u) THEN OK ELSE FORBIDDEN)

\* C2: getBoard on a stored public board returns the board to every user, also
\* to one who neither owns it nor is listed in its collaborators
C2_PublicReadAllowsEveryone ==
  \A b \in Stored(boards), u \in RegisteredUsers :
    boards[b].security = "public" => getBoardService(boards, b, u) = OK

C2_Witness ==
  /\ resp.op = "get" /\ resp.status = OK
  /\ Exists(boards, resp.board)
  /\ boards[resp.board].security = "public"
  /\ resp.user # Owner(resp.board)
  /\ ~Listed(resp.board, resp.user)

\* C3: addCollaborator and removeCollaborator by anybody but the owner, an "edit"
\* collaborator included, fail with Forbidden and leave every board as it was
C3_OnlyOwnerChangesCollaborators ==
  \A b \in Stored(boards), u \in RegisteredUsers, t \in UserIds :
    u # Owner(b) =>
      /\ Unchanged(deleteCollaboratorService(boards, b, u, t), FORBIDDEN)
      /\ \A p \in Permissions :
           Unchanged(addCollaboratorService(boards, b, u, t, p), FORBIDDEN)

C3_Witness ==
  /\ resp.op = "add" /\ resp.status = FORBIDDEN
  /\ Exists(boards, resp.board)
  /\ \E i \in 1..Len(boards[resp.board].collaborators) :
       boards[resp.board].collaborators[i] = [user |-> resp.user, permission |-> "edit"]

\* C4: no stored board lists a user id twice in its collaborators
C4_NoDuplicateCollaborators ==
  \A b \in Stored(boards) :
    \A i, j \in 1..Len(boards[b].collaborators) :
      i # j => boards[b].collaborators[i].user # boards[b].collaborators[j].user

\* C5 as stated: the owner of a stored board is never listed in its collaborators
OwnerListed(bs, b) ==
  /\ Exists(bs, b)
  /\ \E i \in 1..Len(bs[b].collaborators) :
       bs[b].collaborators[i].user = bs[b].createdBy

C5_OwnerNeverCollaborator == \A b \in BoardIds : ~OwnerListed(boards, b)

\* C5 as amended: the owner of a board gets into its collaborators only by the
\* owner's own request, a createBoard whose initial list names the creator or an
\* addCollaborator by the owner naming themself; no other request puts them there
C5_OwnerListedOnlyByOwnRequest ==
  [][\A b \in BoardIds :
       (OwnerListed(boards', b) /\ ~OwnerListed(boards, b)) =>
         /\ resp'.board = b
         /\ resp'.user = boards'[b].createdBy
         /\ \/ resp'.op = "create" /\ resp'.status = CREATED
            \/ resp'.op = "add" /\ resp'.status = CREATED /\ resp'.target = resp'.user]_vars

C5_Witness ==
  /\ resp.op = "add" /\ resp.status = CREATED
  /\ resp.target = resp.user
  /\ OwnerListed(boards, resp.board)

\* C6 as stated: addCollaborator by the owner for a user already listed fails with
\* Conflict (409) and leaves the collaborators as they were
C6_DuplicateAddIsConflict ==
  \A b \in Stored(boards), t \in UserIds, p \in Permissions :
    Listed(b, t) =>
      Unchanged(addCollaboratorService(boards, b, Owner(b), t, p), CONFLICT)

\* C6 as amended: addCollaborator by the owner for a user already listed fails with
\* BadRequest (400) and leaves the collaborators as they were
C6_DuplicateAddIsBadRequest ==
  \A b \in Stored(boards), t \in UserIds, p \in Permissions :
    Listed(b, t) =>
      Unchanged(addCollaboratorService(boards, b, Owner(b), t, p), BAD_REQUEST)

C6_Witness ==
  /\ resp.op = "add" /\ resp.status = BAD_REQUEST
  /\ Exists(boards, resp.board)
  /\ resp.user = Owner(resp.board)
  /\ Listed(resp.board, resp.target)

\* C7 as stated: addCollaborator by the owner naming the owner fails with
\* BadRequest and does not add the owner to the collaborators
C7_OwnerAsTargetIsBadRequest ==
  \A b \in Stored(boards), p \in Permissions :
    Unchanged(addCollaboratorService(boards, b, Owner(b), Owner(b), p), BAD_REQUEST)

\* C7 as amended: addCollaborator by the owner naming the owner is served like any
\* other target: when the owner is not listed yet it succeeds and appends the
\* owner with the given permission, and only when the owner is listed already does
\* it fail with BadRequest
C7_OwnerAsTargetIsAppended ==
  \A b \in Stored(boards), p \in Permissions :
    LET r == addCollaboratorService(boards, b, Owner(b), Owner(b), p)
    IN IF Listed(b, Owner(b))
       THEN Unchanged(r, BAD_REQUEST)
       ELSE /\ r.status = CREATED
            /\ r.boards = [boards EXCEPT ![b].collaborators =
                             Append(@, [user |-> Owner(b), permission |-> p])]

C7_Witness ==
  /\ resp.op = "add" /\ resp.status = CREATED
  /\ Exists(boards, resp.board)
  /\ resp.user = Owner(resp.board)
  /\ resp.target = Owner(resp.board)
  /\ undo.phase = "added" /\ ~\E i \in 1..Len(undo.before) :
                                undo.before[i].user = resp.target

\* C8: getBoard, deleteBoard, addCollaborator and removeCollaborator on a board id
\* that is not stored fail with NotFound whoever asks, and a Forbidden answer is
\* only ever given for a board that is stored
C8_NotFoundBeforeForbidden ==
  /\ \A b \in BoardIds \ Stored(boards), u \in RegisteredUsers :
       /\ getBoardService(boards, b, u) = NOT_FOUND
       /\ Unchanged(deleteBoardService(boards, b, u), NOT_FOUND)
       /\ \A t \in UserIds :
            /\ Unchanged(deleteCollaboratorService(boards, b, u, t), NOT_FOUND)
            /\ \A p \in Permissions :
                 Unchanged(addCollaboratorService(boards, b, u, t, p), NOT_FOUND)
  /\ resp.status = FORBIDDEN => Exists(boards, resp.board)

C8_Witness ==
  /\ resp.op = "delete" /\ resp.status = NOT_FOUND
  /\ resp.board < nextId
  /\ ~Exists(boards, resp.board)

\* C9: removeCollaborator by the owner for a user who is not listed fails with
\* NotFound and leaves the collaborators as they were
C9_RemoveNonCollaboratorIsNotFound ==
  \A b \in Stored(boards), t \in UserIds :
    ~Listed(b, t) =>
      Unchanged(deleteCollaboratorService(boards, b, Owner(b), t), NOT_FOUND)

C9_Witness ==
  /\ resp.op = "remove" /\ resp.status = NOT_FOUND
  /\ Exists(boards, resp.board)
  /\ resp.user = Owner(resp.board)
  /\ ~Listed(resp.board, resp.target)
  /\ Len(boards[resp.board].collaborators) > 0

\* C10: an addCollaborator of X by the owner followed by removeCollaborator of X
\* leaves the collaborators list equal to the list before the add
C10_AddThenRemoveRestores ==
  undo.phase = "removed" =>
    /\ Exists(boards, undo.board)
    /\ boards[undo.board].collaborators = undo.before

\* the user was added to a list of two different entries and removed again
C10_Witness ==
  /\ undo.phase = "removed"
  /\ resp.op = "remove" /\ resp.status = OK
  /\ Len(undo.before) = 2
  /\ undo.before[1] # undo.before[2]
  /\ \A i \in 1..Len(undo.before) : undo.before[i].user # undo.target

OwnerUsesName(bs, owner, name) ==
  \E b \in Stored(bs) : bs[b].createdBy = owner /\ bs[b].name = name

\* C12: createBoard with a name that the same owner already uses for a stored
\* board fails with Conflict (409) and creates no board, and createBoard with that
\* name under another owner who does not use it succeeds and stores the board
C12_DuplicateNameIsConflict ==
  \A b \in Stored(boards), o \in RegisteredUsers, s \in Securities :
    nextId <= MaxBoards =>
      LET r == createBoardService(boards, nextId, o, boards[b].name, s, <<>>)
      IN IF OwnerUsesName(boards, o, boards[b].name)
         THEN Unchanged(r, CONFLICT)
         ELSE /\ r.status = CREATED
              /\ r.boards[nextId] # NoBoard
              /\ r.boards[nextId].createdBy = o
              /\ r.boards[nextId].name = boards[b].name

\* C14: deleteBoard fails with NotFound when the board is absent, fails with
\* Forbidden and keeps the board when the caller is not createdBy, and otherwise
\* removes that board and no other; a board id that was handed out and is no longer
\* stored answers NotFound to getBoard by every user, its former owner included,
\* and never becomes stored again
C14_DeleteThenNotFound ==
  /\ [](\A b \in BoardIds, u \in RegisteredUsers :
         LET r == deleteBoardService(boards, b, u)
         IN /\ ~Exists(boards, b) => Unchanged(r, NOT_FOUND)
            /\ (Exists(boards, b) /\ u # Owner(b)) => Unchanged(r, FORBIDDEN)
            /\ (Exists(boards, b) /\ u = Owner(b)) =>
                 /\ r.status = OK
                 /\ r.boards = [boards EXCEPT ![b] = NoBoard]
                 /\ \A v \in RegisteredUsers :
                      getBoardService(r.boards, b, v) = NOT_FOUND
            /\ (b < nextId /\ ~Exists(boards, b)) =>
                 getBoardService(boards, b, u) = NOT_FOUND)
  /\ [][\A b \in BoardIds :
         (b < nextId /\ ~Exists(boards, b)) => (b < nextId' /\ ~Exists(boards', b))]_vars

C14_Witness ==
  /\ resp.op = "delete" /\ resp.status = OK
  /\ resp.board < nextId
  /\ ~Exists(boards, resp.board)
  /\ getBoardService(boards, resp.board, resp.user) = NOT_FOUND

\* C15: listAccessible(U) returns exactly the stored boards that U created or is
\* listed on as collaborator, each once, with role "owner" iff U created the board
\* and "collaborator" otherwise; when there is no such board the result is the
\* empty list
C15_ListIsOwnedOrShared ==
  \A u \in RegisteredUsers :
    LET list == getBoardThumbnailDataService(boards, u)
    IN /\ {list[i]._id : i \in 1..Len(list)} =
            {b \in Stored(boards) : Owner(b) = u \/ Listed(b, u)}
       /\ \A i, j \in 1..Len(list) : list[i]._id = list[j]._id => i = j
       /\ \A i \in 1..Len(list) :
            /\ list[i].name = boards[list[i]._id].name
            /\ list[i].role = IF Owner(list[i]._id) = u THEN "owner" ELSE "collaborator"
       /\ (\A b \in Stored(boards) : Owner(b) # u /\ ~Listed(b, u)) => list = <<>>

C15_Witness ==
  /\ resp.op = "list" /\ resp.status = OK
  /\ LET list == getBoardThumbnailDataService(boards, resp.user)
     IN /\ \E i \in 1..Len(list) : list[i].role = "owner"
        /\ \E i \in 1..Len(list) : list[i].role = "collaborator"

\* the name contains the text, letters compared without regard to case
Contains(name, text) ==
  \E k \in 0..(Len(name) - Len(text)) :
    \A i \in 1..Len(text) : Lower(text[i]) = Lower(name[k + i])

\* C16: search(pattern, U) returns only boards that U created or is listed on and
\* whose name contains the pattern without regard to case, never a public board of
\* another user that U is not listed on, and when nothing matches it answers with
\* the empty list and not with an error
C16_SearchIsSubstringMatch ==
  \A u \in RegisteredUsers, p \in Patterns :
    LET r == searchBoardService(boards, p, u)
    IN /\ r.status = OK
       /\ \A i \in 1..Len(r.boards) :
            /\ r.boards[i].createdBy = u \/ Listed(r.boards[i]._id, u)
            /\ Contains(r.boards[i].name, p)

\* C13: in every reachable state, also while and after two createBoard requests of
\* one owner with one name are in flight together, no two stored boards have both
\* the same createdBy and the same name
C13_OwnerNameUnique ==
  \A b, c \in Stored(boards) :
    b # c => ~(boards[b].createdBy = boards[c].createdBy /\ boards[b].name = boards[c].name)

\* ---- properties of registration and login ----
LocalUser(email) ==
  \E i \in 1..Len(users) : users[i].email = email /\ users[i].authProvider = "local"

\* C17: register fails with Conflict and creates no user if and only if a user with
\* that email and authProvider "local" exists when the service looks for one; when
\* none does, a google or github user with that email included or not, the local
\* user is created; and a Conflict answer is only ever given for such an email
C17_RegisterConflictIffLocalExists ==
  /\ \A n \in Usernames, e \in Emails, p \in Passwords :
       LET r == userRegisterService(users, n, e, p)
       IN /\ (r.status = CONFLICT /\ r.users = users) <=> LocalUser(e)
          /\ ~LocalUser(e) =>
               /\ r.status = CREATED
               /\ r.users = Append(users, [username |-> n, email |-> e,
                                           password |-> hash(p), authProvider |-> "local",
                                           firebaseUid |-> NoUid])
  /\ (reply.op = "register" /\ reply.status = CONFLICT) => LocalUser(reply.email)

C17_Witness ==
  /\ reply.op = "register" /\ reply.status = CREATED
  /\ \E i, j \in 1..Len(users) :
       /\ i < j
       /\ users[i].email = reply.email /\ users[i].authProvider \in {"google", "github"}
       /\ users[j].email = reply.email /\ users[j].authProvider = "local"

\* C18: after any sequence and any interleaving of register and loginFederated
\* requests, no two stored user records have both the same email and the same
\* authProvider
C18_EmailProviderUnique ==
  \A i, j \in 1..Len(users) :
    i # j => ~(users[i].email = users[j].email /\
               users[i].authProvider = users[j].authProvider)

C18_Witness ==
  /\ reply.op = "register" /\ reply.status = INTERNAL_SERVER_ERROR
  /\ LocalUser(reply.email)
  /\ \E i \in 1..Len(users) : users[i].firebaseUid # NoUid

\* C19: loginLocal issues a token only when a user with the given email and
\* authProvider "local" exists and the password verifies against that user's stored
\* hash, and then the token names that user; in every other case (no local user
\* with the email, only a federated account with it, a wrong password) it fails
\* with Unauthorized and issues no token.  For a login served while profile updates
\* are: a token names a stored local user with the email given, and the step that
\* issues it ends a login whose password verifies against the hash of the local
\* record it read
C19_LoginOnlyWithLocalUserAndPassword ==
  /\ [](\A e \in Emails, p \in Passwords :
          LET r == userLoginService(users, e, p)
              verified == {i \in 1..Len(users) :
                             /\ users[i].email = e /\ users[i].authProvider = "local"
                             /\ users[i].password = hash(p)}
          IN IF verified = {}
             THEN r.status = UNAUTHORIZED /\ r.token = NoToken
             ELSE /\ r.status = OK
                  /\ r.token # NoToken
                  /\ r.token.id \in verified
                  /\ r.token.email = e /\ r.token.authProvider = "local")
  /\ []((reply.op = "login" /\ reply.token # NoToken) =>
          /\ reply.token.id \in 1..Len(users)
          /\ users[reply.token.id].email = reply.email
          /\ users[reply.token.id].authProvider = "local")
  /\ []((reply.op = "login" /\ reply.token = NoToken) => reply.status = UNAUTHORIZED)
  /\ [][(reply = NoReply /\ reply'.op = "login" /\ reply'.token # NoToken) =>
          \E s \in Slots :
            /\ inflight[s] # Free /\ inflight'[s] = Free
            /\ inflight[s].op = "login"
            /\ inflight[s].read.email = reply'.email
            /\ inflight[s].read.authProvider = "local"
            /\ inflight[s].read.password = hash(inflight[s].password)
            /\ reply'.token.id = inflight[s].user]_vars

C19_Witness ==
  /\ reply.op = "login" /\ reply.status = UNAUTHORIZED /\ reply.token = NoToken
  /\ ~LocalUser(reply.email)
  /\ \E i \in 1..Len(users) :
       users[i].email = reply.email /\ users[i].authProvider \in {"google", "github"}

\* C20: the failure response of loginLocal for an email with no local user and its
\* failure response for the email of a local user with a wrong password have the
\* same status and the same message
C20_LoginFailuresIndistinguishable ==
  \A known, unknown \in Emails, p, q \in Passwords :
    (/\ LocalUser(known)
     /\ users[findOneLocal(users, known)].password # hash(p)
     /\ ~LocalUser(unknown)) =>
      LET wrongPassword == userLoginService(users, known, p)
          noSuchUser == userLoginService(users, unknown, q)
      IN /\ wrongPassword.status = noSuchUser.status
         /\ wrongPassword.message = noSuchUser.message

\* ---- further properties of the board services ----
Failed(status) == status \notin {OK, CREATED}

\* C24: a createBoard, deleteBoard, addCollaborator or removeCollaborator call that
\* answers with an error (NotFound, Forbidden, BadRequest, or Internal for a save
\* that failed) leaves the stored boards and every collaborators list exactly as
\* they were before the call, and so does the step that gives the answer
C24_ErrorLeavesStoreUnchanged ==
  /\ [](\A b \in BoardIds, u \in RegisteredUsers :
          /\ LET r == deleteBoardService(boards, b, u)
             IN Failed(r.status) => r.boards = boards
          /\ \A t \in UserIds :
               /\ LET r == deleteCollaboratorService(boards, b, u, t)
                  IN Failed(r.status) => r.boards = boards
               /\ \A p \in Permissions :
                    LET r == addCollaboratorService(boards, b, u, t, p)
                    IN Failed(r.status) => r.boards = boards)
  /\ [](nextId <= MaxBoards =>
          \A o \in RegisteredUsers, n \in Names, s \in Securities,
             l \in SeqsUpTo(ICollaborator, 1) :
            LET r == createBoardService(boards, nextId, o, n, s, l)
            IN Failed(r.status) => r.boards = boards)
  /\ [][(/\ resp = Idle
          /\ resp'.op \in {"create", "delete", "add", "remove"}
          /\ Failed(resp'.status))
           => boards' = boards]_vars

\* a removeCollaborator whose save failed on a list another request had written
\* since was answered Internal, and the board and its list are stored
C24_Witness ==
  /\ resp.op = "remove" /\ resp.status = INTERNAL_SERVER_ERROR
  /\ Exists(boards, resp.board)
  /\ Len(boards[resp.board].collaborators) > 0

\* C27: addCollaborator and removeCollaborator change nothing but the collaborators
\* of the board they name, whose createdBy, name and security stay, as does every
\* other board; and while a board is stored no request changes its createdBy
C27_OnlyTargetListChanges ==
  /\ [](\A b \in BoardIds, u \in RegisteredUsers, t \in UserIds :
         LET Framed(r) ==
               /\ \A c \in BoardIds \ {b} : r.boards[c] = boards[c]
               /\ Exists(boards, b) =>
                    r.boards[b] = [boards[b] EXCEPT
                                     !.collaborators = r.boards[b].collaborators]
               /\ ~Exists(boards, b) => r.boards[b] = NoBoard
         IN /\ Framed(deleteCollaboratorService(boards, b, u, t))
            /\ \A p \in Permissions :
                 Framed(addCollaboratorService(boards, b, u, t, p)))
  /\ [][\A b \in BoardIds :
         (Exists(boards, b) /\ Exists(boards', b)) =>
           boards'[b].createdBy = boards[b].createdBy]_vars

C27_Witness ==
  /\ resp.op = "remove" /\ resp.status = OK
  /\ Exists(boards, resp.board)
  /\ boards[resp.board].security = "public"
  /\ \E c \in Stored(boards) \ {resp.board} : Len(boards[c].collaborators) > 0

\* C28: on a board whose security is "public", deleteBoard, addCollaborator and
\* removeCollaborator by any user other than createdBy fail with Forbidden and
\* leave the board stored and unchanged
C28_PublicIsReadOnly ==
  \A b \in Stored(boards), u \in RegisteredUsers, t \in UserIds :
    (boards[b].security = "public" /\ u # Owner(b)) =>
      /\ Unchanged(deleteBoardService(boards, b, u), FORBIDDEN)
      /\ Unchanged(deleteCollaboratorService(boards, b, u, t), FORBIDDEN)
      /\ \A p \in Permissions :
           Unchanged(addCollaboratorService(boards, b, u, t, p), FORBIDDEN)

C28_Witness ==
  /\ resp.op = "delete" /\ resp.status = FORBIDDEN
  /\ Exists(boards, resp.board)
  /\ boards[resp.board].security = "public"
  /\ getBoardService(boards, resp.board, resp.user) = OK

\* C29: every board that listAccessible(U) or search(pattern, U) returns to U is a
\* board that getBoard answers to U with success in the same state
C29_ListedBoardsCanBeOpened ==
  \A u \in RegisteredUsers :
    /\ LET list == getBoardThumbnailDataService(boards, u)
       IN \A i \in 1..Len(list) : getBoardService(boards, list[i]._id, u) = OK
    /\ \A p \in Patterns :
         LET found == searchBoardService(boards, p, u).boards
         IN \A i \in 1..Len(found) : getBoardService(boards, found[i]._id, u) = OK

\* C23: loginFederated creates a user record only when no record has the asserted
\* external id, so no two records share a firebaseUid, and every token a federated
\* login issues carries the id of the one record with that external id
C23_OneRecordPerExternalId ==
  /\ \A i, j \in 1..Len(users) :
       (i # j /\ users[i].firebaseUid # NoUid) =>
         users[i].firebaseUid # users[j].firebaseUid
  /\ (reply.op = "firebase" /\ reply.status = OK) =>
       reply.token.id =
         findOneByFirebaseUid(users, users[reply.token.id].firebaseUid)

\* C22: updating a profile answers NotFound for a user id that is absent or not a
\* local user; when the old password does not verify against the stored hash the
\* answer is Unauthorized and the stored record (hash and username) is unchanged even
\* if the request carries a new username; a stored password changes only when the
\* old password verifies, and then to the hash of the new one.  For a request served
\* while others are: an Unauthorized answer is given for an old password that does
\* not verify against the record the request read (a request the session check
\* refused has read none), the step that answers NotFound or Unauthorized writes
\* nothing, and no step but the save of an update changes a password, that update
\* having verified its old password against the record it read
C22_UpdateVerifiesOldPassword ==
  /\ [](\A userId \in 1..MaxUsers :
          \A body \in {b \in UpdateBodies : validateLocalUserUpdate(b) = 0} :
            LET r == userUpdateService(users, userId, body)
                local == userId \in 1..Len(users) /\ users[userId].authProvider = "local"
            IN /\ Len(r.users) = Len(users)
               /\ ~local => (r.status = NOT_FOUND /\ r.users = users)
               /\ (local /\ body.oldPassword # Absent
                     /\ users[userId].password # hash(body.oldPassword))
                    => (r.status = UNAUTHORIZED /\ r.users = users)
               /\ \A i \in 1..Len(users) :
                    r.users[i].password # users[i].password =>
                      /\ i = userId /\ local /\ body.oldPassword # Absent
                      /\ users[i].password = hash(body.oldPassword)
                      /\ r.users[i].password = hash(body.newPassword))
  /\ []((/\ reply.op = "update" /\ reply.status = UNAUTHORIZED
          /\ reply.read # NoDocument) =>
          /\ reply.body.oldPassword # Absent
          /\ reply.read.password # hash(reply.body.oldPassword))
  /\ [][(/\ reply = NoReply
          /\ reply'.op = "update"
          /\ reply'.status \in {NOT_FOUND, UNAUTHORIZED})
           => users' = users]_vars
  /\ [][\A i \in 1..Len(users) :
          users'[i].password # users[i].password =>
            \E s \in Slots :
              /\ inflight[s] # Free /\ inflight'[s] = Free
              /\ inflight[s].op = "updateSave" /\ inflight[s].user = i
              /\ inflight[s].body.oldPassword # Absent
              /\ inflight[s].read.password = hash(inflight[s].body.oldPassword)
              /\ users'[i].password = hash(inflight[s].body.newPassword)]_vars

\* a local user's update with a wrong old password and a new username was answered
\* Unauthorized and the stored username is still the old one
C22_Witness ==
  /\ reply.op = "update" /\ reply.status = UNAUTHORIZED /\ reply.read # NoDocument
  /\ reply.body.username # Absent
  /\ reply.user \in 1..Len(users)
  /\ users[reply.user].authProvider = "local"
  /\ users[reply.user].username # reply.body.username
  /\ users[reply.user].password # hash(reply.body.oldPassword)

\* the token is present, signed with the server's key and not expired at that time
Verified(token, time) == token # NoToken /\ jwtVerify(token, time)

\* C21: a request to a session-protected route is answered Unauthorized both when
\* the token cookie is missing and when the token is invalid or expired; Forbidden
\* is answered only to a caller whose token verified
C21_InvalidTokenIsUnauthorized ==
  reply.op \in {"logout", "profile"} =>
    /\ ~Verified(reply.token, reply.at) => reply.status = UNAUTHORIZED
    /\ reply.status = FORBIDDEN => Verified(reply.token, reply.at)

\* C30: logout does not revoke the session: it changes nothing on the server and
\* clears the client's cookie, and the token it was made with is accepted by
\* validateToken and reaches the protected operation for as long as it has not expired
C30_LogoutDoesNotRevoke ==
  /\ [](/\ (kept # NoToken /\ now < kept.exp) =>
              /\ validateToken(kept, now) = [status |-> 0, user |-> kept.payload]
              /\ userGetService(users, kept.payload.id) = OK
        /\ (reply.op = "profile" /\ kept # NoToken /\ reply.token = kept
              /\ reply.at < kept.exp) => reply.status = OK)
  /\ [][(reply'.op = "logout" /\ reply.op # "logout") =>
          /\ users' = users
          /\ reply'.status = OK => (cookie' = NoToken /\ kept' = reply'.token)]_vars

\* the profile was served to a request carrying the logged-out token while the
\* client's jar is empty
C30_Witness ==
  /\ reply.op = "profile" /\ reply.status = OK
  /\ kept # NoToken /\ reply.token = kept
  /\ cookie = NoToken

\* C25: a stored board is written (changed or deleted) only by the write step of a
\* request that has itself read that board and whose caller is the owner the read
\* document names, which is the owner the stored board has; and a request answered
\* with a failed check writes nothing
C25_WriteOnlyAfterOwnCheck ==
  [][/\ \A b \in Stored(boards) :
          boards'[b] # boards[b] =>
            \E s \in Slots :
              /\ inflight[s] # Free /\ inflight'[s] = Free
              /\ inflight[s].op \in {"add", "remove", "delete"}
              /\ inflight[s].board = b
              /\ inflight[s].owner = boards[b].createdBy
              /\ inflight[s].user = inflight[s].owner
     /\ (/\ resp = Idle
         /\ resp'.op \in {"add", "remove", "delete"}
         /\ resp'.status \in {NOT_FOUND, FORBIDDEN, BAD_REQUEST})
          => (boards' = boards /\ inflight' = inflight)]_vars

\* the write of an addCollaborator request has landed while another request that
\* read the same board before it still waits for its own write
C25_Witness ==
  /\ resp.op = "add" /\ resp.status = CREATED
  /\ \E s \in Slots : inflight[s] # Free /\ inflight[s].board = resp.board

NoDuplicate(collaborators) ==
  \A i, j \in 1..Len(collaborators) :
    i # j => collaborators[i].user # collaborators[j].user

\* C26: when addCollaborator requests on one board overlap, each reading the board
\* and writing it later with the other's steps between, no step makes a list that
\* held every user id once hold one twice
C26_OverlappingAddsKeepUnique ==
  [][\A b \in Stored(boards) :
       (boards'[b] # NoBoard /\ NoDuplicate(boards[b].collaborators))
         => NoDuplicate(boards'[b].collaborators)]_vars

====
